---------------------------- MODULE Spec2Model ----------------------------
(***************************************************************************)
(* A model of the voice-noob backend core:                                 *)
(*   - the admission queue      app/services/call_queue.py                 *)
(*   - the resilience wrapper   app/services/qa/resilience.py              *)
(*   - the call registry        app/services/call_registry.py              *)
(*   - graceful shutdown        app/services/call_registry.py              *)
(*   - the call session bridge  app/api/telephony_ws.py,                   *)
(*                              app/services/gpt_realtime.py               *)
(*                                                                         *)
(* The Redis commands the code issues (LLEN, RPUSH, LPOP, LRANGE, LREM,    *)
(* DEL, HINCRBY, HSET, EXPIRE, SCAN) are operators on the modelled store;  *)
(* every handler is one action in the sequential specifications, and is    *)
(* cut at its await points in the concurrent ones.                         *)
(***************************************************************************)
EXTENDS Integers, Sequences, FiniteSets, TLC

VARIABLES
    \* ---- admission queue (call_queue.py) ----
    queueEnabled,   \* settings.ENABLE_CALL_QUEUE
    queue,          \* the Redis list CALL_QUEUE_KEY, head first
    stats,          \* the Redis hash QUEUE_STATS_KEY
    now,            \* time.time()
    nextSerial,     \* history: number of items pushed so far
    lastOp,         \* history: the handler that ran last, its input and result
    wasFull,        \* history: the list has held MaxQueueSize items at some time
    \* ---- the same handlers cut at their await points ----
    tpc,            \* task -> the await point the task is suspended at
    tloc,           \* task -> the handler's local variables
    tret,           \* task -> what its last finished handler returned
    lockHolder,     \* _queue_lock: the task holding it, or NoTask
    consumed,       \* history: serials handed out once, and more than once
    \* ---- resilience wrapper (qa/resilience.py) ----
    cbState,        \* claude_circuit_breaker.current_state (enum member name)
    failCounter,    \* claude_circuit_breaker.fail_counter
    recoveryElapsed,\* timeout_duration has passed since the breaker opened
    cpc,            \* caller -> "idle", "inflight" (awaiting the API), "backoff"
    attempt,        \* caller -> tenacity's attempt_number of the current call
    invoked,        \* caller -> client.messages.create calls in the current call
    lastOutcome,    \* caller -> how the latest attempt of the current call ended
    reported,       \* history: caller -> failures its current call reported
    consecFailed,   \* history: calls that failed since the last success
    ev,             \* history: the step taken last and what it returned
    \* ---- call registry (call_registry.py) ----
    regEnabled,     \* settings.ENABLE_CALL_REGISTRY
    registry,       \* the Redis hashes CALL_REGISTRY_PREFIX + call_id
    regLast,        \* history: the registry handler that ran last
    registered,     \* history: ids registered and not since unregistered
    regClean,       \* history: no Redis error and no TTL expiry so far
    \* ---- graceful shutdown (call_registry.py) ----
    shutdownFlag,   \* _shutdown_flag
    shutdownKey,    \* the Redis key SHUTDOWN_FLAG_KEY exists
    dpc,            \* wait_for_calls_to_drain: "idle", "poll", "sleep", "final"
    dTimeout,       \* its local timeout
    dElapsed,       \* time.time() - start_time, in seconds
    drained,        \* history: what the last finished drain read and returned
    \* ---- call session bridge (api/telephony_ws.py, gpt_realtime.py) ----
    bpc,            \* twilio_media_stream / telnyx_media_stream: where it is
    wsCloseCode,    \* code of websocket.close(), NoCode while not called
    failReason,     \* history: why call setup failed, "none" otherwise
    checked,        \* history: the setup checks that passed
    enableTranscript, \* agent.enable_transcript
    connection,     \* GPTRealtimeSession.connection: "none", "open", "closed"
    inPc,           \* carrier -> AI loop: "idle", "running", "done"
    outPc,          \* AI -> carrier loop: "idle", "running", "done"
    callSid,        \* call_sid / call_control_id captured from the start frame
    streamSid,      \* stream_sid / stream_id captured from the start frame
    mediaOut,       \* history: the stream ids of the media frames sent out
    carrierGone,    \* the carrier has disconnected
    framesIn,       \* history: carrier frames received
    expected,       \* history: payloads of the media frames received before
                    \*   the first stop event or disconnect
    cutShort,       \* history: as expected, ending also at the first frame
                    \*   that fails to parse or decode
    stopSeen,       \* history: "no", "stop" (stop or disconnect), "error"
    sent,           \* audio passed to connection.input_audio_buffer.append
    eventsIn,       \* history: AI-session events received
    carrierOut,     \* audio frames sent to the carrier
    fcReceived,     \* history: call ids of the function-call events received
    fcOutputs,      \* function_call_output items created
    transcriptEntries, \* GPTRealtimeSession._transcript_entries
    currentText,    \* GPTRealtimeSession._current_assistant_text
    deltasSeen,     \* history: assistant transcript deltas received
    persisted,      \* transcript handed to save_transcript_to_call_record
    lateArrival     \* history: the connection arrived during shutdown

qvars == <<queueEnabled, queue, stats, now, nextSerial, lastOp, wasFull>>
tvars == <<tpc, tloc, tret, lockHolder, consumed>>
rvars == <<cbState, failCounter, recoveryElapsed, cpc, attempt, invoked,
           lastOutcome, reported, consecFailed, ev>>
gvars == <<regEnabled, registry, regLast, registered, regClean>>
svars == <<shutdownFlag, shutdownKey>>
dvars == <<dpc, dTimeout, dElapsed, drained>>
bvars == <<bpc, wsCloseCode, failReason, checked, enableTranscript, connection,
           inPc, outPc, callSid, carrierGone, framesIn, expected, cutShort,
           stopSeen, sent, eventsIn, carrierOut, fcReceived, fcOutputs,
           transcriptEntries, currentText, deltasSeen, persisted, lateArrival,
           streamSid, mediaOut>>
xvars == <<svars, dvars, bvars>>
ovars == <<qvars, tvars, rvars, gvars, svars, dvars>>
vars == <<qvars, tvars, rvars, gvars, xvars>>

----------------------------------------------------------------------------
(* Bounds of the model *)

\* settings.MAX_CALL_QUEUE_SIZE, scaled down
MaxQueueSize == 2
\* cap on the number of RPUSHes in one behaviour (bounds stats and serials)
MaxEnqueues == 4
\* cap on the clock
MaxTime == 1

CallIds == {"c1", "c2"}
Priorities == {0, 5}
Tasks == {"t1", "t2"}

NoCall == [call_id |-> "", priority |-> 0, queued_at |-> 0, n |-> 0]
NoTask == "none"
NoLoc == [item |-> NoCall, size |-> 0, items |-> <<>>, call_id |-> ""]

----------------------------------------------------------------------------
(* QueuedCall and its JSON form *)

\* QueuedCall(call_id, ..., queued_at=time.time(), priority): the fields the
\* queue logic reads; agent_id, phone_number and metadata are carried along
\* unread.  n is the history serial of the push, not part of the program.
QueuedCall(call_id, priority, queued_at, n) ==
    [call_id |-> call_id, priority |-> priority, queued_at |-> queued_at, n |-> n]

\* json.dumps(queued_call.to_dict()): the string stored in the list
to_dict(qc) ==
    [call_id |-> qc.call_id, priority |-> qc.priority, queued_at |-> qc.queued_at]

\* QueuedCall.from_dict(json.loads(data))
from_dict(item) ==
    QueuedCall(item.call_id, item.priority, item.queued_at, item.n)

----------------------------------------------------------------------------
(* Redis list commands *)

LLen(q) == Len(q)

RPush(q, item) == Append(q, item)

\* RPOP in place of LPOP
RPopValue(q) == IF q = <<>> THEN NoCall ELSE q[Len(q)]

\* LPOP: the head, or NoCall (nil) on an empty list
LPopValue(q) == IF q = <<>> THEN NoCall ELSE Head(q)

LPopRest(q) == IF q = <<>> THEN q ELSE Tail(q)

\* LRANGE key 0 count-1
LRange(q, count) == SubSeq(q, 1, IF count < Len(q) THEN count ELSE Len(q))

\* index of the first element equal (as stored string) to item, 0 if none
FirstEqual(q, item) ==
    LET Hits == {i \in 1..Len(q) : to_dict(q[i]) = to_dict(item)}
    IN  IF Hits = {} THEN 0 ELSE CHOOSE i \in Hits : \A j \in Hits : i <= j

\* LREM key 1 item: the list without the first element equal to item
LRem(q, item) ==
    LET k == FirstEqual(q, item)
    IN  IF k = 0 THEN q
        ELSE [i \in 1..(Len(q) - 1) |-> IF i < k THEN q[i] ELSE q[i + 1]]

\* LREM's reply: how many elements it removed
LRemCount(q, item) == IF FirstEqual(q, item) = 0 THEN 0 ELSE 1

\* remove_from_queue's scan: index in items of the first element whose
\* call_id is call_id, 0 if none
FirstWithId(items, call_id) ==
    LET Hits == {i \in 1..Len(items) : items[i].call_id = call_id}
    IN  IF Hits = {} THEN 0 ELSE CHOOSE i \in Hits : \A j \in Hits : i <= j

----------------------------------------------------------------------------
(* Read-only handlers *)

get_queue_depth_unguarded == LLen(queue)

get_queue_depth == IF ~queueEnabled THEN 0 ELSE LLen(queue)

peek_queue(count) ==
    IF ~queueEnabled THEN <<>>
    ELSE [i \in 1..Len(LRange(queue, count)) |-> from_dict(queue[i])]

----------------------------------------------------------------------------
(* The handlers, each run to completion (sequential use).  The input f names
   the Redis command that raises, "none" when the store is available. *)

EnqFail == {"none", "llen", "rpush", "hincrby"}
DeqFail == {"none", "lpop", "hincrby"}
RemFail == {"none", "lrange", "lrem"}
ClrFail == {"none", "llen", "delete"}

\* line 92: queue_size >= settings.MAX_CALL_QUEUE_SIZE
QueueFullOffByOne(queue_size) == queue_size > MaxQueueSize

QueueFull(queue_size) == queue_size >= MaxQueueSize

Op(name, call_id, fail, ret) ==
    [op |-> name, call_id |-> call_id, fail |-> fail, ret |-> ret]

enqueue_call(call_id, priority, f) ==
    /\ nextSerial < MaxEnqueues
    /\ LET item == QueuedCall(call_id, priority, now, nextSerial + 1)
       IN  IF ~queueEnabled \/ f = "llen" \/ QueueFull(LLen(queue))
                \/ f = "rpush"
           THEN /\ lastOp' = Op("enqueue", call_id, f, FALSE)
                /\ UNCHANGED <<queue, stats, nextSerial>>
           ELSE /\ queue' = RPush(queue, item)
                /\ nextSerial' = nextSerial + 1
                /\ IF f = "hincrby"
                   THEN /\ lastOp' = Op("enqueue", call_id, f, FALSE)
                        /\ UNCHANGED stats
                   ELSE /\ lastOp' = Op("enqueue", call_id, f, TRUE)
                        /\ stats' = [stats EXCEPT !.total_queued = @ + 1]
    /\ wasFull' = (wasFull \/ Len(queue') >= MaxQueueSize)
    /\ UNCHANGED <<queueEnabled, now>>
    /\ UNCHANGED <<tvars, rvars, gvars, xvars>>

dequeue_call(f) ==
    /\ IF ~queueEnabled \/ f = "lpop"
       THEN /\ lastOp' = Op("dequeue", "", f, NoCall)
            /\ UNCHANGED <<queue, stats>>
       ELSE /\ queue' = LPopRest(queue)
            /\ IF LPopValue(queue) = NoCall \/ f = "hincrby"
               THEN /\ lastOp' = Op("dequeue", "", f, NoCall)
                    /\ UNCHANGED stats
               ELSE /\ lastOp' = Op("dequeue", "", f, from_dict(LPopValue(queue)))
                    /\ stats' = [stats EXCEPT !.total_dequeued = @ + 1]
    /\ UNCHANGED <<queueEnabled, now, nextSerial, wasFull>>
    /\ UNCHANGED <<tvars, rvars, gvars, xvars>>

remove_from_queue(call_id, f) ==
    /\ LET k == FirstWithId(queue, call_id)
       IN  IF ~queueEnabled \/ f = "lrange" \/ k = 0 \/ f = "lrem"
           THEN /\ lastOp' = Op("remove", call_id, f, FALSE)
                /\ UNCHANGED queue
           ELSE /\ queue' = LRem(queue, queue[k])
                /\ lastOp' = Op("remove", call_id, f, LRemCount(queue, queue[k]) > 0)
    /\ UNCHANGED <<queueEnabled, stats, now, nextSerial, wasFull>>
    /\ UNCHANGED <<tvars, rvars, gvars, xvars>>

clear_queue(f) ==
    /\ IF ~queueEnabled \/ f = "llen" \/ f = "delete"
       THEN /\ lastOp' = Op("clear", "", f, 0)
            /\ UNCHANGED queue
       ELSE /\ queue' = <<>>
            /\ lastOp' = Op("clear", "", f, LLen(queue))
    /\ UNCHANGED <<queueEnabled, stats, now, nextSerial, wasFull>>
    /\ UNCHANGED <<tvars, rvars, gvars, xvars>>

\* time passes
Tick ==
    /\ now < MaxTime
    /\ now' = now + 1
    /\ lastOp' = Op("tick", "", "none", FALSE)
    /\ UNCHANGED <<queueEnabled, queue, stats, nextSerial, wasFull>>
    /\ UNCHANGED <<tvars, rvars, gvars, xvars>>

----------------------------------------------------------------------------

QueueInit ==
    /\ queueEnabled \in BOOLEAN
    /\ queue = <<>>
    /\ stats = [total_queued |-> 0, total_dequeued |-> 0]
    /\ now = 0
    /\ nextSerial = 0
    /\ lastOp = Op("none", "", "none", FALSE)
    /\ wasFull = FALSE
    /\ tpc = [t \in Tasks |-> "idle"]
    /\ tloc = [t \in Tasks |-> NoLoc]
    /\ tret = [t \in Tasks |-> Op("none", "", "none", FALSE)]
    /\ lockHolder = NoTask
    /\ consumed = [once |-> {}, twice |-> {}]

QueueNext ==
    \/ \E c \in CallIds, p \in Priorities, f \in EnqFail : enqueue_call(c, p, f)
    \/ \E f \in DeqFail : dequeue_call(f)
    \/ \E c \in CallIds, f \in RemFail : remove_from_queue(c, f)
    \/ \E f \in ClrFail : clear_queue(f)
    \/ Tick

----------------------------------------------------------------------------
(* The same handlers as asyncio tasks of one process.  A task runs from one
   await to the next without interruption; every Redis command and an
   acquisition of the held _queue_lock are awaits.  The store is available. *)

CanAcquireAlways(t) == TRUE

\* async with _queue_lock: the task gets the lock when no task holds it
CanAcquire(t) == lockHolder = NoTask

\* the calls with the serials in S are handed out: returned by a dequeue,
\* taken by a remove that returns True, or counted by a clear
Consume(S) ==
    [once |-> consumed.once \cup S,
     twice |-> consumed.twice \cup (S \cap consumed.once)]

\* the serials of the calls in the list q
Serials(q) == {q[i].n : i \in 1..Len(q)}

Return(t, name, call_id, ret) ==
    /\ tpc' = [tpc EXCEPT ![t] = "idle"]
    /\ tret' = [tret EXCEPT ![t] = Op(name, call_id, "none", ret)]
    /\ tloc' = [tloc EXCEPT ![t] = NoLoc]

\* enqueue_call lines 84-108: the size check, made before the lock is taken
t_enqueue_llen(t, call_id, priority) ==
    /\ tpc[t] = "idle"
    /\ nextSerial + Cardinality({u \in Tasks : tpc[u] = "enq_rpush"}) < MaxEnqueues
    /\ IF ~queueEnabled \/ QueueFull(LLen(queue))
       THEN Return(t, "enqueue", call_id, FALSE)
       ELSE /\ tpc' = [tpc EXCEPT ![t] = "enq_rpush"]
            /\ tloc' = [tloc EXCEPT ![t] =
                  [NoLoc EXCEPT !.item = QueuedCall(call_id, priority, now, 0),
                                !.size = LLen(queue), !.call_id = call_id]]
            /\ UNCHANGED tret
    /\ UNCHANGED <<qvars, lockHolder>>
    /\ UNCHANGED consumed
    /\ UNCHANGED <<rvars, gvars, xvars>>

\* lines 110-112: async with _queue_lock, rpush
t_enqueue_rpush(t) ==
    /\ tpc[t] = "enq_rpush"
    /\ CanAcquire(t)
    /\ lockHolder' = t
    /\ queue' = RPush(queue, [tloc[t].item EXCEPT !.n = nextSerial + 1])
    /\ nextSerial' = nextSerial + 1
    /\ wasFull' = (wasFull \/ Len(queue') >= MaxQueueSize)
    /\ tpc' = [tpc EXCEPT ![t] = "enq_hincrby"]
    /\ UNCHANGED <<queueEnabled, stats, now, lastOp, tloc, tret>>
    /\ UNCHANGED consumed
    /\ UNCHANGED <<rvars, gvars, xvars>>

\* lines 115-124: hincrby, the lock is released, return True
t_enqueue_hincrby(t) ==
    /\ tpc[t] = "enq_hincrby"
    /\ stats' = [stats EXCEPT !.total_queued = @ + 1]
    /\ lockHolder' = NoTask
    /\ Return(t, "enqueue", tloc[t].call_id, TRUE)
    /\ UNCHANGED <<queueEnabled, queue, now, nextSerial, lastOp, wasFull>>
    /\ UNCHANGED consumed
    /\ UNCHANGED <<rvars, gvars, xvars>>

\* dequeue_call lines 137-147: lpop under the lock
t_dequeue_lpop(t) ==
    /\ tpc[t] = "idle"
    /\ queueEnabled => CanAcquire(t)
    /\ IF ~queueEnabled
       THEN /\ Return(t, "dequeue", "", NoCall)
            /\ UNCHANGED queue
       ELSE /\ queue' = LPopRest(queue)
            /\ IF LPopValue(queue) = NoCall
               THEN Return(t, "dequeue", "", NoCall)
               ELSE /\ tpc' = [tpc EXCEPT ![t] = "deq_hincrby"]
                    /\ tloc' = [tloc EXCEPT ![t] =
                                  [NoLoc EXCEPT !.item = LPopValue(queue)]]
                    /\ UNCHANGED tret
    /\ UNCHANGED <<queueEnabled, stats, now, nextSerial, lastOp, wasFull, lockHolder>>
    /\ consumed' = IF queueEnabled /\ LPopValue(queue) # NoCall
                   THEN Consume({LPopValue(queue).n}) ELSE consumed
    /\ UNCHANGED <<rvars, gvars, xvars>>

\* lines 149-163: from_dict, hincrby, return the call
t_dequeue_hincrby(t) ==
    /\ tpc[t] = "deq_hincrby"
    /\ stats' = [stats EXCEPT !.total_dequeued = @ + 1]
    /\ Return(t, "dequeue", "", from_dict(tloc[t].item))
    /\ UNCHANGED <<queueEnabled, queue, now, nextSerial, lastOp, wasFull, lockHolder>>
    /\ UNCHANGED consumed
    /\ UNCHANGED <<rvars, gvars, xvars>>

\* remove_from_queue lines 257-270: lrange under the lock, scan for call_id
t_remove_lrange(t, call_id) ==
    /\ tpc[t] = "idle"
    /\ queueEnabled => CanAcquire(t)
    /\ IF ~queueEnabled \/ FirstWithId(LRange(queue, Len(queue)), call_id) = 0
       THEN /\ Return(t, "remove", call_id, FALSE)
            /\ UNCHANGED lockHolder
       ELSE /\ lockHolder' = t
            /\ tpc' = [tpc EXCEPT ![t] = "rem_lrem"]
            /\ tloc' = [tloc EXCEPT ![t] =
                  [NoLoc EXCEPT !.items = LRange(queue, Len(queue)),
                                !.call_id = call_id]]
            /\ UNCHANGED tret
    /\ UNCHANGED qvars
    /\ UNCHANGED consumed
    /\ UNCHANGED <<rvars, gvars, xvars>>

\* lines 271-279: lrem of the item found; on a reply of 0 the scan goes on
t_remove_lrem(t) ==
    /\ tpc[t] = "rem_lrem"
    /\ LET items == tloc[t].items
           k == FirstWithId(items, tloc[t].call_id)
           rest == SubSeq(items, k + 1, Len(items))
       IN  /\ queue' = LRem(queue, items[k])
           /\ IF LRemCount(queue, items[k]) > 0
              THEN /\ Return(t, "remove", tloc[t].call_id, TRUE)
                   /\ lockHolder' = NoTask
              ELSE IF FirstWithId(rest, tloc[t].call_id) = 0
              THEN /\ Return(t, "remove", tloc[t].call_id, FALSE)
                   /\ lockHolder' = NoTask
              ELSE /\ tloc' = [tloc EXCEPT ![t].items = rest]
                   /\ UNCHANGED <<tpc, tret, lockHolder>>
    /\ UNCHANGED <<queueEnabled, stats, now, nextSerial, lastOp, wasFull>>
    /\ consumed' = IF LRemCount(queue, tloc[t].items[FirstWithId(tloc[t].items, tloc[t].call_id)]) > 0
                   THEN Consume({tloc[t].items[FirstWithId(tloc[t].items, tloc[t].call_id)].n})
                   ELSE consumed
    /\ UNCHANGED <<rvars, gvars, xvars>>

\* clear_queue lines 292-299: llen under the lock
t_clear_llen(t) ==
    /\ tpc[t] = "idle"
    /\ queueEnabled => CanAcquire(t)
    /\ IF ~queueEnabled
       THEN /\ Return(t, "clear", "", 0)
            /\ UNCHANGED lockHolder
       ELSE /\ lockHolder' = t
            /\ tpc' = [tpc EXCEPT ![t] = "clr_delete"]
            /\ tloc' = [tloc EXCEPT ![t] = [NoLoc EXCEPT !.size = LLen(queue)]]
            /\ UNCHANGED tret
    /\ UNCHANGED qvars
    /\ consumed' = IF queueEnabled THEN Consume(Serials(queue)) ELSE consumed
    /\ UNCHANGED <<rvars, gvars, xvars>>

\* lines 300-303: delete, the lock is released, return the depth read
t_clear_delete(t) ==
    /\ tpc[t] = "clr_delete"
    /\ queue' = <<>>
    /\ lockHolder' = NoTask
    /\ Return(t, "clear", "", tloc[t].size)
    /\ UNCHANGED <<queueEnabled, stats, now, nextSerial, lastOp, wasFull>>
    /\ UNCHANGED consumed
    /\ UNCHANGED <<rvars, gvars, xvars>>

ConcNext ==
    \E t \in Tasks :
        \/ \E c \in CallIds, p \in Priorities : t_enqueue_llen(t, c, p)
        \/ t_enqueue_rpush(t)
        \/ t_enqueue_hincrby(t)
        \/ t_dequeue_lpop(t)
        \/ t_dequeue_hincrby(t)
        \/ \E c \in CallIds : t_remove_lrange(t, c)
        \/ t_remove_lrem(t)
        \/ t_clear_llen(t)
        \/ t_clear_delete(t)

----------------------------------------------------------------------------
(* Claims about the admission queue *)

\* C1: strict FIFO.  On an enabled queue every dequeue that returns a call
\* returns the one pushed earliest among those in the list, whatever the
\* priorities, and removes exactly that one; a dequeue on an empty list
\* returns empty.
C1_StrictFifo ==
    [][(lastOp'.op = "dequeue" /\ queueEnabled) =>
         /\ queue = <<>> => lastOp'.ret = NoCall
         /\ lastOp'.ret # NoCall =>
              /\ queue # <<>>
              /\ lastOp'.ret.n \in Serials(queue)
              /\ \A m \in Serials(queue) : lastOp'.ret.n <= m
              /\ lastOp'.ret = from_dict(queue[1])
              /\ Serials(queue') = Serials(queue) \ {lastOp'.ret.n}]_vars

\* a dequeue returned a priority-0 call while a priority-5 call, pushed
\* later, stayed in the list
C1_Witness ==
    /\ queueEnabled
    /\ lastOp.op = "dequeue"
    /\ lastOp.ret # NoCall
    /\ lastOp.ret.priority = 0
    /\ \E i \in 1..Len(queue) : queue[i].priority = 5 /\ queue[i].n > lastOp.ret.n

\* C2: capacity limit, sequential use, store available.  enqueue returns
\* false and leaves the list as it was when depth() = max_size; it returns
\* true and appends the call when depth() < max_size.
C2_CapacityLimit ==
    [][(lastOp'.op = "enqueue" /\ queueEnabled /\ lastOp'.fail = "none") =>
         /\ get_queue_depth <= MaxQueueSize
         /\ get_queue_depth = MaxQueueSize =>
              /\ lastOp'.ret = FALSE
              /\ queue' = queue
         /\ get_queue_depth < MaxQueueSize =>
              /\ lastOp'.ret = TRUE
              /\ Len(queue') = Len(queue) + 1
              /\ SubSeq(queue', 1, Len(queue)) = queue
              /\ queue'[Len(queue')].call_id = lastOp'.call_id]_vars

\* an enqueue succeeded after the list had been full, refilling it
C2_Witness ==
    /\ queueEnabled
    /\ wasFull
    /\ lastOp.op = "enqueue"
    /\ lastOp.fail = "none"
    /\ lastOp.ret = TRUE
    /\ stats.total_queued > MaxQueueSize
    /\ Len(queue) = MaxQueueSize

\* C3: under every interleaving of the handlers the depth never exceeds
\* max_size.
C3_DepthNeverExceedsMax == Len(queue) <= MaxQueueSize

----------------------------------------------------------------------------
(* The resilience wrapper: call_claude_with_resilience under the tenacity
   retry decorator, sharing the process-wide claude_circuit_breaker.

   The breaker and the retry loop are library objects; the module builds
   them at lines 28-32 and 60-79.  The breaker is modelled by its contract:
   entering it raises CircuitBreakerError while it is open and the timeout
   has not passed, and lets the call through (half-open) afterwards; leaving
   it records the outcome against the state it is then in. *)

\* settings.ANTHROPIC_MAX_RETRIES
ANTHROPIC_MAX_RETRIES == 3
\* settings.ANTHROPIC_CIRCUIT_FAILURE_THRESHOLD
ANTHROPIC_CIRCUIT_FAILURE_THRESHOLD == 5
\* cap: no call is started once this many calls in a row have failed
MaxConsecFailed == 6

Callers == {"a", "b"}

\* lines 66-73: the exception types the decorator retries on
Transient == {"RateLimitError", "APIConnectionError", "InternalServerError",
              "TimeoutException"}
\* any other anthropic.APIError
Fatal == {"APIStatusError"}
\* how an attempt may end
Outcomes == {"ok"} \cup Transient \cup Fatal

\* line 29
fail_max_plus_one == ANTHROPIC_CIRCUIT_FAILURE_THRESHOLD + 1

fail_max == ANTHROPIC_CIRCUIT_FAILURE_THRESHOLD

\* str(current_state): the enum member, as lines 166-170 document it
StateStr(st) ==
    CASE st = "CLOSED" -> "CircuitBreakerState.CLOSED"
      [] st = "OPEN" -> "CircuitBreakerState.OPEN"
      [] st = "HALF_OPEN" -> "CircuitBreakerState.HALF_OPEN"

\* state_str.split(".")[-1].lower()
LastPartLower(str) ==
    CASE str = "CircuitBreakerState.CLOSED" -> "closed"
      [] str = "CircuitBreakerState.OPEN" -> "open"
      [] str = "CircuitBreakerState.HALF_OPEN" -> "half_open"

\* get_circuit_state(): the state name, fail_count and fail_max
get_circuit_state ==
    [state |-> LastPartLower(StateStr(cbState)),
     fail_count |-> failCounter,
     fail_max |-> fail_max]

\* is_circuit_open(): "open" in str(current_state).lower()
is_circuit_open == cbState \in {"OPEN", "HALF_OPEN"}

\* the same test made on the enum member's name
PreCheckOpenByName == cbState = "OPEN"

\* line 119: current_state == "open".  current_state is an enum member
\* (lines 166-170), which no str equals.
PreCheckOpen == cbState = "open"

\* entering the breaker (line 127) raises CircuitBreakerError
BreakerRejects == cbState = "OPEN" /\ ~recoveryElapsed

AttemptRejectedNever == FALSE

\* lines 119-127: the attempt ends in CircuitBreakerError before the API call
AttemptRejected == PreCheckOpen \/ BreakerRejects

\* entering the breaker, let through: an open breaker becomes half-open
StateOnEnter == IF cbState = "OPEN" THEN "HALF_OPEN" ELSE cbState

\* leaving the breaker without an exception
StateOnSuccess == IF cbState = "HALF_OPEN" THEN "CLOSED" ELSE cbState

CounterKeptOnSuccess(counter) == counter

\* leaving the breaker without an exception: the failure counter afterwards
CounterOnSuccess(counter) == 0

\* leaving the breaker with an exception, the counter already incremented
StateOnFailure(counter) ==
    IF cbState = "HALF_OPEN" \/ (cbState = "CLOSED" /\ counter >= fail_max)
    THEN "OPEN" ELSE cbState

RetryOnAnyError(outcome) == outcome # "ok"

\* lines 66-73: retry_if_exception_type
ShouldRetry(outcome) == outcome \in Transient

\* line 61: stop_after_attempt
StopAfterAttempt(attempt_number) == attempt_number >= ANTHROPIC_MAX_RETRIES

\* lines 60-79: what the decorator raises when it stops retrying; it is
\* built without reraise=True
RaisedOnStop(outcome) == "RetryError"

\* the step taken: its kind, the caller, how the attempt ended, the breaker
\* state before it, and what the call returned or raised if it ended
Ev(kind, caller, outcome, prev, raised) ==
    [kind |-> kind, caller |-> caller, outcome |-> outcome, prev |-> prev,
     raised |-> raised]

\* the call of caller c is over
CallOver(c) ==
    /\ cpc' = [cpc EXCEPT ![c] = "idle"]
    /\ attempt' = [attempt EXCEPT ![c] = 0]
    /\ invoked' = [invoked EXCEPT ![c] = 0]
    /\ lastOutcome' = [lastOutcome EXCEPT ![c] = "none"]
    /\ reported' = [reported EXCEPT ![c] = 0]

\* lines 118-139, one attempt up to the await of client.messages.create
EnterAttempt(c) ==
    IF AttemptRejected
    THEN /\ CallOver(c)
         /\ consecFailed' = consecFailed + 1
         /\ ev' = Ev("enter", c, "none", cbState, "CircuitBreakerError")
         /\ UNCHANGED <<cbState, failCounter, recoveryElapsed>>
    ELSE /\ cbState' = StateOnEnter
         /\ cpc' = [cpc EXCEPT ![c] = "inflight"]
         /\ attempt' = [attempt EXCEPT ![c] = @ + 1]
         /\ invoked' = [invoked EXCEPT ![c] = @ + 1]
         /\ ev' = Ev("enter", c, "none", cbState, "none")
         /\ UNCHANGED <<failCounter, recoveryElapsed, lastOutcome, reported,
                        consecFailed>>

\* a caller calls call_claude_with_resilience: the first attempt
call_claude_with_resilience(c) ==
    /\ cpc[c] = "idle"
    /\ consecFailed < MaxConsecFailed
    /\ EnterAttempt(c)
    /\ UNCHANGED <<qvars, tvars, gvars, xvars>>

\* the backoff sleep is over: the decorator calls the function again
RetryAttempt(c) ==
    /\ cpc[c] = "backoff"
    /\ EnterAttempt(c)
    /\ UNCHANGED <<qvars, tvars, gvars, xvars>>

\* client.messages.create returns or raises: the breaker records it
\* (line 127), lines 141-147 re-raise, and the decorator decides
AttemptEnds(c, outcome) ==
    /\ cpc[c] = "inflight"
    /\ IF outcome = "ok"
       THEN /\ failCounter' = CounterOnSuccess(failCounter)
            /\ cbState' = StateOnSuccess
            /\ UNCHANGED recoveryElapsed
       ELSE /\ failCounter' = failCounter + 1
            /\ cbState' = StateOnFailure(failCounter + 1)
            /\ recoveryElapsed' =
                  IF cbState # "OPEN" /\ cbState' = "OPEN" THEN FALSE
                  ELSE recoveryElapsed
    /\ IF outcome = "ok"
       THEN /\ CallOver(c)
            /\ consecFailed' = 0
            /\ ev' = Ev("complete", c, outcome, cbState, "ok")
       ELSE IF ~ShouldRetry(outcome)
       THEN /\ CallOver(c)
            /\ consecFailed' = consecFailed + 1
            /\ ev' = Ev("complete", c, outcome, cbState, outcome)
       ELSE IF StopAfterAttempt(attempt[c])
       THEN /\ CallOver(c)
            /\ consecFailed' = consecFailed + 1
            /\ ev' = Ev("complete", c, outcome, cbState, RaisedOnStop(outcome))
       ELSE /\ cpc' = [cpc EXCEPT ![c] = "backoff"]
            /\ lastOutcome' = [lastOutcome EXCEPT ![c] = outcome]
            /\ reported' = [reported EXCEPT ![c] = @ + 1]
            /\ ev' = Ev("complete", c, outcome, cbState, "none")
            /\ UNCHANGED <<attempt, invoked, consecFailed>>
    /\ UNCHANGED <<qvars, tvars, gvars, xvars>>

\* timeout_duration passes while the breaker is open
RecoveryTimeoutElapses ==
    /\ cbState = "OPEN"
    /\ ~recoveryElapsed
    /\ recoveryElapsed' = TRUE
    /\ ev' = Ev("elapsed", "", "none", cbState, "none")
    /\ UNCHANGED <<cbState, failCounter, cpc, attempt, invoked, lastOutcome,
                   reported, consecFailed>>
    /\ UNCHANGED <<qvars, tvars, gvars, xvars>>

\* reset_circuit_breaker(): claude_circuit_breaker.close()
reset_circuit_breaker ==
    /\ cbState' = "CLOSED"
    /\ failCounter' = 0
    /\ consecFailed' = 0
    /\ ev' = Ev("reset", "", "none", cbState, "none")
    /\ UNCHANGED <<recoveryElapsed, cpc, attempt, invoked, lastOutcome,
                   reported>>
    /\ UNCHANGED <<qvars, tvars, gvars, xvars>>

ResilienceInit ==
    /\ cbState = "CLOSED"
    /\ failCounter = 0
    /\ recoveryElapsed = FALSE
    /\ cpc = [c \in Callers |-> "idle"]
    /\ attempt = [c \in Callers |-> 0]
    /\ invoked = [c \in Callers |-> 0]
    /\ lastOutcome = [c \in Callers |-> "none"]
    /\ reported = [c \in Callers |-> 0]
    /\ consecFailed = 0
    /\ ev = Ev("none", "", "none", "CLOSED", "none")

ResilienceNext ==
    \/ \E c \in Callers : call_claude_with_resilience(c)
    \/ \E c \in Callers : RetryAttempt(c)
    \/ \E c \in Callers, o \in Outcomes : AttemptEnds(c, o)
    \/ RecoveryTimeoutElapses
    \/ reset_circuit_breaker

----------------------------------------------------------------------------
(* Claims about the resilience wrapper *)

\* C4: while the breaker is open and the recovery timeout has not passed,
\* every attempt to call, by any caller, ends at once in CircuitBreakerError
\* and client.messages.create is not invoked: no caller's invocation count
\* grows and the breaker stays open.
C4_OpenFailsFast ==
    [][(ev'.kind = "enter" /\ cbState = "OPEN" /\ ~recoveryElapsed) =>
         /\ ev'.raised = "CircuitBreakerError"
         /\ cpc'[ev'.caller] = "idle"
         /\ \A c \in Callers : invoked'[c] <= invoked[c]
         /\ \A c \in Callers : cpc'[c] = "inflight" => cpc[c] = "inflight"
         /\ cbState' = "OPEN"]_vars

\* five calls failed in a row, each reported once, and the sixth was
\* rejected by the open breaker
C4_Witness ==
    /\ ev.kind = "enter"
    /\ ev.raised = "CircuitBreakerError"
    /\ ev.prev = "OPEN"
    /\ ~recoveryElapsed
    /\ failCounter = ANTHROPIC_CIRCUIT_FAILURE_THRESHOLD
    /\ consecFailed = ANTHROPIC_CIRCUIT_FAILURE_THRESHOLD + 1

\* C5: when a call ends in failure and it is at least the failure_threshold-th
\* call in a row to do so, with no successful call in between, the state
\* reported by get_circuit_state() is "open".
C5_OpenAfterThreshold ==
    (/\ ev.raised \notin {"none", "ok"}
     /\ consecFailed >= ANTHROPIC_CIRCUIT_FAILURE_THRESHOLD)
        => get_circuit_state.state = "open"

\* the fifth failing call in a row, each with one attempt, opened the breaker
C5_Witness ==
    /\ ev.kind = "complete"
    /\ ev.raised \in Fatal
    /\ ev.prev = "CLOSED"
    /\ consecFailed = ANTHROPIC_CIRCUIT_FAILURE_THRESHOLD
    /\ failCounter = ANTHROPIC_CIRCUIT_FAILURE_THRESHOLD
    /\ get_circuit_state.state = "open"

C7_OneReportPerCall == \A c \in Callers : reported[c] <= 1

\* C8: within one call client.messages.create is invoked at most
\* max-attempts times; it is invoked again only after an attempt that failed
\* with a transient error; a success or a fatal error ends the call.
C8_RetryOnlyTransient ==
    /\ \A c \in Callers :
         /\ invoked[c] <= ANTHROPIC_MAX_RETRIES
         /\ cpc[c] = "backoff" => lastOutcome[c] \in Transient
         /\ (cpc[c] = "inflight" /\ invoked[c] > 1) => lastOutcome[c] \in Transient
    /\ (ev.kind = "complete" /\ ev.outcome \in {"ok"} \cup Fatal) =>
         /\ cpc[ev.caller] = "idle"
         /\ ev.raised = ev.outcome

\* a call is in its last allowed attempt, after two transient failures
C8_Witness ==
    \E c \in Callers :
        /\ cpc[c] = "inflight"
        /\ invoked[c] = ANTHROPIC_MAX_RETRIES
        /\ reported[c] = ANTHROPIC_MAX_RETRIES - 1
        /\ lastOutcome[c] \in Transient

\* C9: when the retries are exhausted the call raises the last attempt's
\* own error.
C9_LastErrorSurfaces ==
    (ev.kind = "complete" /\ ev.outcome \in Transient /\ ev.raised # "none")
        => ev.raised = ev.outcome

----------------------------------------------------------------------------
(* The call registry, its handlers run one at a time.  The input f names the
   Redis command that raises, "none" when the store is available. *)

RegIds == {"call-1", "call-2"}
Agents == {"agent-1", "agent-2"}
Phones == {"", "+15550100"}
\* metadata: None, or a dict with the one key "k"
Metadatas == {"None", "x"}

RegFail == {"none", "hset", "expire"}
UnregFail == {"none", "delete"}

\* lines 68-77: the hash fields written; started_at is not modelled
call_data(call_id, agent_id, phone_number, metadata) ==
    [call_id |-> call_id, agent_id |-> agent_id, phone_number |-> phone_number,
     meta_k |-> metadata]

\* HSET key mapping: the fields given are written, a field of an existing
\* hash that the mapping does not name is kept
HSet(reg, key, data) ==
    LET old == IF key \in DOMAIN reg THEN reg[key]
               ELSE [call_id |-> "", agent_id |-> "", phone_number |-> "",
                     meta_k |-> "None", ttl |-> FALSE]
        new == [call_id |-> data.call_id, agent_id |-> data.agent_id,
                phone_number |-> data.phone_number,
                meta_k |-> IF data.meta_k = "None" THEN old.meta_k ELSE data.meta_k,
                ttl |-> old.ttl]
    IN  [k \in DOMAIN reg \cup {key} |-> IF k = key THEN new ELSE reg[k]]

\* EXPIRE key ttl
Expire(reg, key) ==
    [k \in DOMAIN reg |-> IF k = key THEN [reg[k] EXCEPT !.ttl = TRUE] ELSE reg[k]]

DelKeepsKey(reg, key) == reg

\* DEL key
Del(reg, key) == [k \in DOMAIN reg \ {key} |-> reg[k]]

\* SCAN MATCH voicenoob:calls:*
ScanKeys(reg) == DOMAIN reg

get_call_count_no_except(f) ==
    IF ~regEnabled THEN 0
    ELSE IF f # "none" THEN -1 ELSE Cardinality(ScanKeys(registry))

\* get_call_count(): 0 when disabled or on a Redis error
get_call_count(f) ==
    IF ~regEnabled \/ f # "none" THEN 0 ELSE Cardinality(ScanKeys(registry))

\* get_active_calls(): the CallInfo of every key; [] when disabled or on error
get_active_calls(f) ==
    IF ~regEnabled \/ f # "none" THEN {}
    ELSE {[call_id |-> registry[k].call_id,
           agent_id |-> registry[k].agent_id,
           phone_number |-> IF registry[k].phone_number = "" THEN "None"
                            ELSE registry[k].phone_number,
           metadata |-> registry[k].meta_k] : k \in ScanKeys(registry)}

\* the operation last made: its name, id, injected failure and result,
\* whether the id was in the store before it, and for register the fields
\* passed in
RegOp(name, call_id, fail, ret, known) ==
    [op |-> name, call_id |-> call_id, fail |-> fail, ret |-> ret, known |-> known,
     data |-> call_data("", "", "", "None")]

\* the record of a register_call with the fields it was given
Registered(op, call_id, agent_id, phone_number, metadata) ==
    [op EXCEPT !.data = call_data(call_id, agent_id, phone_number, metadata)]

register_call(call_id, agent_id, phone_number, metadata, f) ==
    /\ IF ~regEnabled
       THEN /\ regLast' = Registered(RegOp("register", call_id, f, TRUE, FALSE),
                                     call_id, agent_id, phone_number, metadata)
            /\ UNCHANGED <<registry, regClean>>
       ELSE IF f = "hset"
       THEN /\ regLast' = Registered(RegOp("register", call_id, f, FALSE, call_id \in DOMAIN registry),
                                     call_id, agent_id, phone_number, metadata)
            /\ regClean' = FALSE
            /\ UNCHANGED registry
       ELSE IF f = "expire"
       THEN /\ registry' = HSet(registry, call_id,
                                call_data(call_id, agent_id, phone_number, metadata))
            /\ regLast' = Registered(RegOp("register", call_id, f, FALSE, call_id \in DOMAIN registry),
                                     call_id, agent_id, phone_number, metadata)
            /\ regClean' = FALSE
       ELSE /\ registry' = Expire(HSet(registry, call_id,
                                call_data(call_id, agent_id, phone_number, metadata)),
                                call_id)
            /\ regLast' = Registered(RegOp("register", call_id, f, TRUE, call_id \in DOMAIN registry),
                                     call_id, agent_id, phone_number, metadata)
            /\ UNCHANGED regClean
    /\ registered' = registered \cup {call_id}
    /\ UNCHANGED regEnabled
    /\ UNCHANGED <<qvars, tvars, rvars, xvars>>

unregister_call(call_id, f) ==
    /\ IF ~regEnabled
       THEN /\ regLast' = RegOp("unregister", call_id, f, TRUE, FALSE)
            /\ UNCHANGED <<registry, regClean>>
       ELSE IF f = "delete"
       THEN /\ regLast' = RegOp("unregister", call_id, f, FALSE, call_id \in DOMAIN registry)
            /\ regClean' = FALSE
            /\ UNCHANGED registry
       ELSE /\ registry' = Del(registry, call_id)
            /\ regLast' = RegOp("unregister", call_id, f, TRUE, call_id \in DOMAIN registry)
            /\ UNCHANGED regClean
    /\ registered' = registered \ {call_id}
    /\ UNCHANGED regEnabled
    /\ UNCHANGED <<qvars, tvars, rvars, xvars>>

\* settings.CALL_REGISTRY_TTL passes for a key that carries an expiry
TtlExpires(call_id) ==
    /\ call_id \in DOMAIN registry
    /\ registry[call_id].ttl
    /\ registry' = Del(registry, call_id)
    /\ regLast' = RegOp("expired", call_id, "none", TRUE, TRUE)
    /\ regClean' = FALSE
    /\ UNCHANGED <<regEnabled, registered>>
    /\ UNCHANGED <<qvars, tvars, rvars, xvars>>

RegistryInit ==
    /\ regEnabled \in BOOLEAN
    /\ registry = <<>>
    /\ regLast = RegOp("none", "", "none", TRUE, FALSE)
    /\ registered = {}
    /\ regClean = TRUE

RegistryNext ==
    \/ \E id \in RegIds, a \in Agents, ph \in Phones, m \in Metadatas, f \in RegFail :
          register_call(id, a, ph, m, f)
    \/ \E id \in RegIds, f \in UnregFail : unregister_call(id, f)
    \/ \E id \in RegIds : TtlExpires(id)

----------------------------------------------------------------------------
(* Claims about the call registry *)

ActiveIds == {ci.call_id : ci \in get_active_calls("none")}

\* C10: registry as a set.  With the registry enabled, the store available
\* and no TTL expiry, after every register or unregister the ids listed by
\* get_active_calls, and get_call_count, are the ids registered and not
\* since unregistered; registering an id not registered raises the count by
\* one, unregistering a registered id lowers it by one, and unregistering an
\* unknown id returns true and changes nothing.
C10_RegistryIsSet ==
    [][(regEnabled /\ regClean') =>
         /\ ActiveIds' = registered'
         /\ get_call_count("none")' = Cardinality(registered')
         /\ (regLast'.op = "register" /\ regLast'.call_id \notin ActiveIds) =>
              /\ regLast'.ret = TRUE
              /\ get_call_count("none")' = get_call_count("none") + 1
         /\ (regLast'.op = "unregister" /\ regLast'.call_id \in ActiveIds) =>
              /\ regLast'.ret = TRUE
              /\ get_call_count("none")' = get_call_count("none") - 1
         /\ (regLast'.op = "unregister" /\ regLast'.call_id \notin ActiveIds) =>
              /\ regLast'.ret = TRUE
              /\ registry' = registry]_vars

\* an unknown id was unregistered while another call stayed registered
C10_Witness ==
    /\ regEnabled
    /\ regClean
    /\ regLast.op = "unregister"
    /\ ~regLast.known
    /\ regLast.ret = TRUE
    /\ get_call_count("none") = 1
    /\ ActiveIds = registered

----------------------------------------------------------------------------
(* The breaker's failure counter *)

\* C24: a successful execute call resets the breaker's consecutive-failure
\* counter to zero, so failures separated by a success never add up.  The
\* counter rises by one with each failure reported to the breaker and with
\* nothing else, a success sets it to zero, and a closed breaker opens only
\* on a failure that brings the counter, hence the failures since the last
\* success, to failure_threshold.
C24_SuccessResetsCounter ==
    [][/\ (ev'.kind = "complete" /\ ev'.outcome = "ok") => failCounter' = 0
       /\ (ev'.kind = "complete" /\ ev'.outcome # "ok") =>
             failCounter' = failCounter + 1
       /\ failCounter' > failCounter =>
             (ev'.kind = "complete" /\ ev'.outcome # "ok")
       /\ (cbState = "CLOSED" /\ cbState' = "OPEN") =>
             /\ ev'.kind = "complete" /\ ev'.outcome # "ok"
             /\ failCounter' >= ANTHROPIC_CIRCUIT_FAILURE_THRESHOLD]_vars

\* one caller's call succeeded, clearing the counter, while the other
\* caller's call had already failed twice and waits to retry
C24_Witness ==
    /\ ev.kind = "complete"
    /\ ev.outcome = "ok"
    /\ ev.prev = "CLOSED"
    /\ failCounter = 0
    /\ \E c \in Callers : reported[c] >= 2 /\ cpc[c] = "backoff"

\* C25: register is an idempotent overwrite.  Registering an id that is
\* already registered leaves the count unchanged, and afterwards
\* get_active_calls shows for that id exactly the agent id, phone number
\* and metadata of the latest registration, no metadata entry of the
\* earlier one surviving, and the key carries a TTL.
C25_RegisterOverwrites ==
    [][(regEnabled /\ regLast'.op = "register" /\ regLast'.fail = "none"
          /\ regLast'.known) =>
         /\ get_call_count("none")' = get_call_count("none")
         /\ \A ci \in get_active_calls("none")' :
               ci.call_id = regLast'.call_id =>
                 /\ ci.agent_id = regLast'.data.agent_id
                 /\ ci.phone_number = (IF regLast'.data.phone_number = ""
                                         THEN "None"
                                         ELSE regLast'.data.phone_number)
                 /\ ci.metadata = regLast'.data.meta_k
         /\ registry'[regLast'.call_id].ttl]_vars

\* C28: every call record that register leaves in the store carries a
\* TTL: in no reachable state, a store failure between writing the record
\* and setting its expiry included, does a record exist without an expiry.
C28_EveryRecordHasTtl == \A k \in ScanKeys(registry) : registry[k].ttl

----------------------------------------------------------------------------
(* Graceful shutdown: the shutdown flag and wait_for_calls_to_drain, cut at
   its await points, with calls still being registered and unregistered. *)

SHUTDOWN_DRAIN_TIMEOUT == 120

MaxDrainTimeout == 2

\* drain_timeout as passed by the caller; None and 0 select the default
DrainTimeouts == 0 .. MaxDrainTimeout

ScanFail == {"none", "scan"}
FlagFail == {"none", "set"}

\* drain_timeout or settings.SHUTDOWN_DRAIN_TIMEOUT
TimeoutOf(drain_timeout) ==
    IF drain_timeout = 0 THEN SHUTDOWN_DRAIN_TIMEOUT ELSE drain_timeout

Drained(ret, read, entry, polls, failed) ==
    [ret |-> ret, read |-> read, entry |-> entry, polls |-> polls,
     failed |-> failed]

\* the history of a drain that is still running
DrainNote(read, f) ==
    [drained EXCEPT !.read = read,
                    !.entry = IF drained.polls = 0 THEN read ELSE @,
                    !.polls = IF @ < 2 THEN @ + 1 ELSE @,
                    !.failed = @ \/ f # "none"]

set_shutting_down(shutting_down, f) ==
    /\ shutdownFlag' = shutting_down
    /\ shutdownKey' = IF ~regEnabled \/ f # "none" THEN shutdownKey
                      ELSE shutting_down
    /\ regLast' = RegOp("set_shutting_down", "", f, "None", FALSE)
    /\ UNCHANGED <<regEnabled, registry, registered, regClean>>
    /\ UNCHANGED <<qvars, tvars, rvars, dvars, bvars>>

\* the key is written with ex=settings.SHUTDOWN_DRAIN_TIMEOUT
ShutdownKeyExpires ==
    /\ shutdownKey
    /\ shutdownKey' = FALSE
    /\ UNCHANGED shutdownFlag
    /\ UNCHANGED <<qvars, tvars, rvars, gvars, dvars, bvars>>

is_shutting_down == shutdownFlag

\* lines 232-240: entry, up to the first test of the loop condition
wait_for_calls_to_drain(drain_timeout) ==
    /\ dpc = "idle"
    /\ IF ~regEnabled
       THEN /\ drained' = Drained("True", 0, 0, 0, FALSE)
            /\ UNCHANGED <<dpc, dTimeout, dElapsed>>
       ELSE /\ dTimeout' = TimeoutOf(drain_timeout)
            /\ dElapsed' = 0
            /\ dpc' = "poll"
            /\ drained' = Drained("none", 0, 0, 0, FALSE)
    /\ UNCHANGED <<qvars, tvars, rvars, gvars, svars, bvars>>

\* lines 241-246: one poll inside the loop
DrainPoll(f) ==
    /\ dpc = "poll"
    /\ LET count == get_call_count(f)
       IN  IF count = 0
           THEN /\ dpc' = "idle"
                /\ drained' = [DrainNote(count, f) EXCEPT !.ret = "True"]
           ELSE /\ dpc' = "sleep"
                /\ drained' = DrainNote(count, f)
    /\ UNCHANGED <<dTimeout, dElapsed>>
    /\ UNCHANGED <<qvars, tvars, rvars, gvars, svars, bvars>>

\* lines 247, 240: asyncio.sleep(1), then the loop condition
DrainSleep ==
    /\ dpc = "sleep"
    /\ dElapsed' = dElapsed + 1
    /\ dpc' = IF dElapsed' < dTimeout THEN "poll" ELSE "final"
    /\ UNCHANGED <<dTimeout, drained>>
    /\ UNCHANGED <<qvars, tvars, rvars, gvars, svars, bvars>>

\* lines 249-255: the count read for the log, and the return
DrainTimedOut(f) ==
    /\ dpc = "final"
    /\ LET remaining == get_call_count(f)
       IN  drained' = [DrainNote(remaining, f) EXCEPT !.ret = "False"]
    /\ dpc' = "idle"
    /\ UNCHANGED <<dTimeout, dElapsed>>
    /\ UNCHANGED <<qvars, tvars, rvars, gvars, svars, bvars>>

ShutdownInit ==
    /\ shutdownFlag = FALSE
    /\ shutdownKey = FALSE
    /\ dpc = "idle"
    /\ dTimeout = 0
    /\ dElapsed = 0
    /\ drained = Drained("none", 0, 0, 0, FALSE)

\* the registry handlers as the calls of a draining process use them
DrainRegistryNext ==
    \/ \E id \in RegIds : register_call(id, "agent-1", "", "None", "none")
    \/ \E id \in RegIds : unregister_call(id, "none")
    \/ \E id \in RegIds : TtlExpires(id)

DrainNext ==
    \/ DrainRegistryNext
    \/ \E t \in DrainTimeouts : wait_for_calls_to_drain(t)
    \/ \E f \in ScanFail : DrainPoll(f)
    \/ DrainSleep
    \/ \E f \in ScanFail : DrainTimedOut(f)

----------------------------------------------------------------------------
(* Claims about graceful shutdown *)

\* C11: the result of wait_for_drain says whether the registry count reached
\* zero: a drain whose first reading of the count is 0 returns true at that
\* reading, a drain returns true only on a reading of 0, it returns false
\* only once the timeout has passed, and it never returns false when the
\* count it read at the moment of returning is 0 (every read of the store
\* succeeding).
C11_DrainResult ==
    (dpc = "idle" /\ regEnabled /\ drained.ret # "none" /\ ~drained.failed) =>
        /\ drained.entry = 0 => (drained.ret = "True" /\ drained.polls = 1)
        /\ drained.ret = "True" => drained.read = 0
        /\ drained.ret = "False" => dElapsed >= dTimeout
        /\ drained.ret = "False" => drained.read # 0

----------------------------------------------------------------------------
(* The call session bridge: twilio_media_stream and _handle_twilio_stream of
   api/telephony_ws.py with the GPTRealtimeSession of services/gpt_realtime.py,
   cut at the awaits where the carrier, the database or the AI session
   answers.  telnyx_media_stream and _handle_telnyx_stream (lines 303-526)
   are the same statements with Telnyx's field names. *)

MaxFrames == 4
MaxEvents == 3

NoCode == 0

AgentOutcomes == {"error", "not_found", "inactive", "ok"}
OwnerOutcomes == {"error", "none", "ok"}
StepOutcomes == {"fail", "ok"}

SetupFailures ==
    {"agent_not_found", "agent_inactive", "owner_not_found", "session_failed"}

\* the code passed to websocket.close() for each reason of a failed setup;
\* an exception leaves through `except Exception` (lines 156-157), which
\* does not close the websocket
CloseCodeFor(reason) ==
    CASE reason = "agent_not_found" -> 4004
      [] reason = "agent_inactive" -> 4003
      [] reason = "owner_not_found" -> 4004
      [] OTHER -> NoCode

AgentRejectedIfMissing(outcome) ==
    IF outcome = "not_found" THEN "agent_not_found" ELSE "none"

\* lines 102-110: `if not agent` and `if not agent.is_active`
AgentRejected(outcome) ==
    CASE outcome = "not_found" -> "agent_not_found"
      [] outcome = "inactive" -> "agent_inactive"
      [] OTHER -> "none"

\* the handler returns (or its exception is logged) before any session exists
SetupEnds(reason) ==
    /\ bpc' = "closed"
    /\ failReason' = reason
    /\ wsCloseCode' = CloseCodeFor(reason)

\* line 91: websocket.accept()
accept ==
    /\ bpc = "idle"
    /\ bpc' = "load_agent"
    /\ lateArrival' = is_shutting_down
    /\ UNCHANGED <<wsCloseCode, failReason, checked, enableTranscript, connection,
                   inPc, outPc, callSid, carrierGone, framesIn, expected, cutShort,
                   stopSeen, sent, eventsIn, carrierOut, fcReceived, fcOutputs,
                   transcriptEntries, currentText, deltasSeen, persisted>>
    /\ UNCHANGED <<streamSid, mediaOut>>
    /\ UNCHANGED ovars

\* lines 98-112: the agent is loaded and checked
LoadAgent(outcome, enable_transcript) ==
    /\ bpc = "load_agent"
    /\ IF outcome = "error"
       THEN /\ SetupEnds("lookup_error")
            /\ UNCHANGED <<checked, enableTranscript>>
       ELSE IF AgentRejected(outcome) # "none"
       THEN /\ SetupEnds(AgentRejected(outcome))
            /\ checked' = IF outcome = "inactive" THEN {"found"} ELSE {}
            /\ UNCHANGED enableTranscript
       ELSE /\ bpc' = "lookup_owner"
            /\ checked' = {"found"} \cup IF outcome = "ok" THEN {"active"} ELSE {}
            /\ enableTranscript' = enable_transcript
            /\ UNCHANGED <<wsCloseCode, failReason>>
    /\ UNCHANGED <<connection, inPc, outPc, callSid, carrierGone, framesIn,
                   expected, cutShort, stopSeen, sent, eventsIn, carrierOut,
                   fcReceived, fcOutputs, transcriptEntries, currentText,
                   deltasSeen, persisted, lateArrival>>
    /\ UNCHANGED <<streamSid, mediaOut>>
    /\ UNCHANGED ovars

\* lines 114-131: the owner and the workspace are looked up
LookupOwner(outcome) ==
    /\ bpc = "lookup_owner"
    /\ IF outcome = "error"
       THEN /\ SetupEnds("lookup_error")
            /\ UNCHANGED checked
       ELSE IF outcome = "none"
       THEN /\ SetupEnds("owner_not_found")
            /\ UNCHANGED checked
       ELSE /\ bpc' = "session_init"
            /\ checked' = checked \cup {"owner"}
            /\ UNCHANGED <<wsCloseCode, failReason>>
    /\ UNCHANGED <<enableTranscript, connection, inPc, outPc, callSid, carrierGone,
                   framesIn, expected, cutShort, stopSeen, sent, eventsIn,
                   carrierOut, fcReceived, fcOutputs, transcriptEntries,
                   currentText, deltasSeen, persisted, lateArrival>>
    /\ UNCHANGED <<streamSid, mediaOut>>
    /\ UNCHANGED ovars

\* GPTRealtimeSession.__aenter__ -> initialize, lines 163-220: API keys,
\* client, integrations, ToolRegistry; any of them may raise.  The
\* ToolRegistry of tools/registry.py (lines 19-28) takes (db, user_id) only,
\* so against that file the construction at lines 218-220, which also passes
\* integrations= and workspace_id=, raises TypeError; the step keeps both
\* outcomes, the session being usable only with a registry that accepts them.
SessionInit(outcome) ==
    /\ bpc = "session_init"
    /\ IF outcome = "fail"
       THEN SetupEnds("session_failed")
       ELSE /\ bpc' = "session_connect"
            /\ UNCHANGED <<wsCloseCode, failReason>>
    /\ UNCHANGED <<checked, enableTranscript, connection, inPc, outPc, callSid,
                   carrierGone, framesIn, expected, cutShort, stopSeen, sent,
                   eventsIn, carrierOut, fcReceived, fcOutputs, transcriptEntries,
                   currentText, deltasSeen, persisted, lateArrival>>
    /\ UNCHANGED <<streamSid, mediaOut>>
    /\ UNCHANGED ovars

\* _connect_realtime_api, line 244: the realtime connection is entered
SessionConnect(outcome) ==
    /\ bpc = "session_connect"
    /\ IF outcome = "fail"
       THEN /\ SetupEnds("session_failed")
            /\ UNCHANGED connection
       ELSE /\ bpc' = "session_configure"
            /\ connection' = "open"
            /\ UNCHANGED <<wsCloseCode, failReason>>
    /\ UNCHANGED <<checked, enableTranscript, inPc, outPc, callSid, carrierGone,
                   framesIn, expected, cutShort, stopSeen, sent, eventsIn,
                   carrierOut, fcReceived, fcOutputs, transcriptEntries,
                   currentText, deltasSeen, persisted, lateArrival>>
    /\ UNCHANGED <<streamSid, mediaOut>>
    /\ UNCHANGED ovars

\* _configure_session, lines 249-256 and 258-327: an error is logged and
\* raised again, out of __aenter__; __aexit__ does not run for it
SessionConfigure(outcome) ==
    /\ bpc = "session_configure"
    /\ IF outcome = "fail"
       THEN /\ SetupEnds("session_failed")
            /\ UNCHANGED <<inPc, outPc>>
       ELSE /\ bpc' = "streaming"
            /\ inPc' = "running"
            /\ outPc' = "running"
            /\ UNCHANGED <<wsCloseCode, failReason>>
    /\ UNCHANGED <<checked, enableTranscript, connection, callSid, carrierGone,
                   framesIn, expected, cutShort, stopSeen, sent, eventsIn,
                   carrierOut, fcReceived, fcOutputs, transcriptEntries,
                   currentText, deltasSeen, persisted, lateArrival>>
    /\ UNCHANGED <<streamSid, mediaOut>>
    /\ UNCHANGED ovars

(* The streaming phase: _handle_twilio_stream runs the two loops under
   asyncio.gather(..., return_exceptions=True), which returns when both
   loops have returned. *)

\* media payloads as the carrier may send them: none, canonical base64,
\* base64 with a character outside the alphabet, and base64 cut short
Payloads == {"", "AQ==", "AQ== ", "Ag==", "A"}

\* base64.b64decode(payload): characters outside the alphabet are skipped,
\* wrong padding raises binascii.Error
B64Decode(payload) ==
    CASE payload \in {"AQ==", "AQ== "} -> "x01"
      [] payload = "Ag==" -> "x02"
      [] payload = "" -> ""
      [] OTHER -> "error"

B64EncodeConstant(audio) == "AQ=="

\* base64.b64encode(audio_data).decode("utf-8")
B64Encode(audio) ==
    CASE audio = "x01" -> "AQ=="
      [] audio = "x02" -> "Ag=="
      [] OTHER -> ""

Frame(event, payload) == [event |-> event, payload |-> payload]

\* a start frame carries the provider's ids of the stream and the call
\* (one token stands for both), or lacks them
CarrierFrames ==
    {Frame(e, "") : e \in {"connected", "stop", "mark", "disconnect", "malformed"}}
      \cup {Frame("start", sid) : sid \in {"", "CA1"}}
      \cup {Frame("media", p) : p \in Payloads}

\* GPTRealtimeSession.send_audio: the audio is encoded and appended to the
\* input buffer; an error of the append is logged and not raised
send_audio(audio) ==
    IF connection # "open" THEN sent
    ELSE Append(sent, B64Encode(audio))

\* twilio_to_realtime, one turn of `while True` (lines 187-224)
carrier_to_realtime(frame) ==
    /\ bpc = "streaming"
    /\ inPc = "running"
    /\ framesIn < MaxFrames
    /\ framesIn' = framesIn + 1
    /\ expected' = IF frame.event = "media" THEN Append(expected, frame.payload)
                   ELSE expected
    /\ cutShort' = IF /\ frame.event = "media"
                      /\ frame.payload # ""
                      /\ B64Decode(frame.payload) # "error"
                   THEN Append(cutShort, frame.payload)
                   ELSE cutShort
    /\ carrierGone' = (carrierGone \/ frame.event = "disconnect")
    /\ callSid' = IF frame.event = "start" THEN frame.payload ELSE callSid
    /\ IF frame.event \in {"stop", "disconnect"}
       THEN /\ inPc' = "done"
            /\ stopSeen' = frame.event
            /\ UNCHANGED sent
       ELSE IF \/ frame.event = "malformed"
               \/ (/\ frame.event = "media"
                   /\ frame.payload # ""
                   /\ B64Decode(frame.payload) = "error")
       THEN /\ inPc' = "done"
            /\ stopSeen' = "error"
            /\ UNCHANGED sent
       ELSE /\ sent' = IF frame.event = "media" /\ frame.payload # ""
                       THEN send_audio(B64Decode(frame.payload))
                       ELSE sent
            /\ UNCHANGED <<inPc, stopSeen>>
    /\ UNCHANGED <<bpc, wsCloseCode, failReason, checked, enableTranscript,
                   connection, outPc, eventsIn, carrierOut, fcReceived, fcOutputs,
                   transcriptEntries, currentText, deltasSeen, persisted,
                   lateArrival>>
    /\ streamSid' = IF frame.event = "start" THEN frame.payload ELSE streamSid
    /\ UNCHANGED mediaOut
    /\ UNCHANGED ovars

FcIds == {"f1", "f2"}
ToolNames == {"search_customer", "no_such_tool"}
TextDeltas == {"hi", " "}

Event(type, data, call_id, name) ==
    [type |-> type, data |-> data, call_id |-> call_id, name |-> name]

\* the events of the AI session the loop tells apart; "end" is the end of
\* the event stream and "error" an exception raised by it
AiEvents ==
    {Event(t, "", "", "") : t \in {"assistant_done", "other", "end", "error"}}
      \cup {Event("audio", d, "", "") : d \in {"", "AQ=="}}
      \cup {Event("user_transcript", "yo", "", "")}
      \cup {Event("assistant_delta", d, "", "") : d \in TextDeltas}
      \cup {Event("function_call", args, id, n) :
                args \in {"{}", "{"}, id \in FcIds, n \in ToolNames}

\* json.loads(event.arguments): a truncated document raises
ParseArguments(arguments) == IF arguments = "{}" THEN "dict" ELSE "error"

\* tools/registry.py lines 57-66
crm_tool_names ==
    {"search_customer", "create_contact", "check_availability", "book_appointment",
     "list_appointments", "cancel_appointment", "reschedule_appointment"}

\* ToolRegistry.execute_tool: the "success" of the result; crm_success is
\* what CRMTools.execute_tool reports
execute_tool(tool_name, crm_success) ==
    IF tool_name \in crm_tool_names THEN crm_success ELSE FALSE

\* str.strip() on a text kept as the sequence of its deltas
RECURSIVE LStrip(_)
LStrip(text) ==
    IF text # <<>> /\ Head(text) = " " THEN LStrip(Tail(text)) ELSE text

RECURSIVE RStrip(_)
RStrip(text) ==
    IF text # <<>> /\ text[Len(text)] = " "
    THEN RStrip(SubSeq(text, 1, Len(text) - 1))
    ELSE text

Strip(text) == RStrip(LStrip(text))

TranscriptEntry(role, content) == [role |-> role, content |-> content]

\* add_user_transcript / add_assistant_transcript
add_transcript(entries, role, text) ==
    IF Strip(text) # <<>> THEN Append(entries, TranscriptEntry(role, Strip(text)))
    ELSE entries

\* flush_assistant_text: the entries afterwards
flush_assistant_text(entries, text) == add_transcript(entries, "assistant", text)

\* get_transcript: one "[User]: ..." or "[Assistant]: ..." line per entry
get_transcript(entries) ==
    [i \in 1 .. Len(entries) |->
        [label |-> IF entries[i].role = "user" THEN "User" ELSE "Assistant",
         content |-> entries[i].content]]

\* the loop ends: its exception is logged (line 290), or the stream is over
\* lines 243-249: the media frame built for the carrier
MediaFrame(payload) ==
    [event |-> "media", streamSid |-> streamSid, payload |-> payload]

OutboundEnds ==
    /\ outPc' = "done"
    /\ UNCHANGED <<carrierOut, fcReceived, fcOutputs, transcriptEntries,
                   currentText, deltasSeen>>

\* realtime_to_twilio, one turn of `async for event` (lines 233-291);
\* send_ok: websocket.send_text succeeds; crm_success: the CRM tool's result
realtime_to_carrier(event, send_ok, crm_success) ==
    /\ bpc = "streaming"
    /\ outPc = "running"
    /\ eventsIn < MaxEvents
    /\ carrierGone => ~send_ok
    /\ event.type = "function_call" => event.call_id \notin fcReceived
    /\ eventsIn' = eventsIn + 1
    /\ CASE event.type \in {"end", "error"} -> OutboundEnds
         [] event.type = "audio" ->
              IF event.data = ""
              THEN UNCHANGED <<outPc, carrierOut, fcReceived, fcOutputs,
                               transcriptEntries, currentText, deltasSeen>>
              ELSE IF ~send_ok THEN OutboundEnds
              ELSE /\ carrierOut' = carrierOut + 1
                   /\ UNCHANGED <<outPc, fcReceived, fcOutputs, transcriptEntries,
                                  currentText, deltasSeen>>
         [] event.type = "function_call" ->
              /\ fcReceived' = fcReceived \cup {event.call_id}
              /\ IF ParseArguments(event.data) = "error"
                 THEN /\ outPc' = "done"
                      /\ UNCHANGED fcOutputs
                 ELSE /\ fcOutputs' = Append(fcOutputs,
                              [call_id |-> event.call_id,
                               name |-> event.name,
                               success |-> execute_tool(event.name, crm_success)])
                      /\ UNCHANGED outPc
              /\ UNCHANGED <<carrierOut, transcriptEntries, currentText, deltasSeen>>
         [] event.type = "user_transcript" /\ enableTranscript ->
              /\ transcriptEntries' =
                     add_transcript(transcriptEntries, "user", <<event.data>>)
              /\ UNCHANGED <<outPc, carrierOut, fcReceived, fcOutputs, currentText,
                             deltasSeen>>
         [] event.type = "assistant_delta" /\ enableTranscript ->
              /\ currentText' = Append(currentText, event.data)
              /\ deltasSeen' = IF event.data = " " THEN deltasSeen
                               ELSE Append(deltasSeen, event.data)
              /\ UNCHANGED <<outPc, carrierOut, fcReceived, fcOutputs,
                             transcriptEntries>>
         [] event.type = "assistant_done" /\ enableTranscript ->
              /\ transcriptEntries' =
                     flush_assistant_text(transcriptEntries, currentText)
              /\ currentText' = <<>>
              /\ UNCHANGED <<outPc, carrierOut, fcReceived, fcOutputs, deltasSeen>>
         [] OTHER ->
              UNCHANGED <<outPc, carrierOut, fcReceived, fcOutputs,
                          transcriptEntries, currentText, deltasSeen>>
    /\ UNCHANGED <<bpc, wsCloseCode, failReason, checked, enableTranscript,
                   connection, inPc, callSid, carrierGone, framesIn, expected,
                   cutShort, stopSeen, sent, persisted, lateArrival>>
    /\ mediaOut' = IF event.type = "audio" /\ event.data # "" /\ send_ok
                   THEN mediaOut \cup {MediaFrame(event.data).streamSid}
                   ELSE mediaOut
    /\ UNCHANGED streamSid
    /\ UNCHANGED ovars

NotHanded == [handed |-> FALSE, transcript |-> <<>>]

\* line 294 returns once both loops have; lines 150-152 hand the transcript
\* to save_transcript_to_call_record
SaveTranscript ==
    /\ bpc = "streaming"
    /\ inPc = "done"
    /\ outPc = "done"
    /\ bpc' = "cleanup"
    /\ persisted' = IF enableTranscript /\ callSid # ""
                    THEN [handed |-> TRUE,
                          transcript |-> get_transcript(transcriptEntries)]
                    ELSE persisted
    /\ UNCHANGED <<wsCloseCode, failReason, checked, enableTranscript, connection,
                   inPc, outPc, callSid, carrierGone, framesIn, expected, cutShort,
                   stopSeen, sent, eventsIn, carrierOut, fcReceived, fcOutputs,
                   transcriptEntries, currentText, deltasSeen, lateArrival>>
    /\ UNCHANGED <<streamSid, mediaOut>>
    /\ UNCHANGED ovars

\* __aexit__ -> cleanup (lines 510-532): flush, then close the connection
cleanup ==
    /\ bpc = "cleanup"
    /\ transcriptEntries' = flush_assistant_text(transcriptEntries, currentText)
    /\ currentText' = <<>>
    /\ connection' = IF connection = "open" THEN "closed" ELSE connection
    /\ bpc' = "closed"
    /\ UNCHANGED <<wsCloseCode, failReason, checked, enableTranscript, inPc, outPc,
                   callSid, carrierGone, framesIn, expected, cutShort, stopSeen,
                   sent, eventsIn, carrierOut, fcReceived, fcOutputs, deltasSeen,
                   persisted, lateArrival>>
    /\ UNCHANGED <<streamSid, mediaOut>>
    /\ UNCHANGED ovars

BridgeInit ==
    /\ bpc = "idle"
    /\ wsCloseCode = NoCode
    /\ failReason = "none"
    /\ checked = {}
    /\ enableTranscript = FALSE
    /\ connection = "none"
    /\ inPc = "idle"
    /\ outPc = "idle"
    /\ callSid = ""
    /\ streamSid = ""
    /\ mediaOut = {}
    /\ carrierGone = FALSE
    /\ framesIn = 0
    /\ expected = <<>>
    /\ cutShort = <<>>
    /\ stopSeen = "no"
    /\ sent = <<>>
    /\ eventsIn = 0
    /\ carrierOut = 0
    /\ fcReceived = {}
    /\ fcOutputs = <<>>
    /\ transcriptEntries = <<>>
    /\ currentText = <<>>
    /\ deltasSeen = <<>>
    /\ persisted = NotHanded
    /\ lateArrival = FALSE

SetupNext ==
    \/ accept
    \/ \E o \in AgentOutcomes, t \in BOOLEAN : LoadAgent(o, t)
    \/ \E o \in OwnerOutcomes : LookupOwner(o)
    \/ \E o \in StepOutcomes : SessionInit(o)
    \/ \E o \in StepOutcomes : SessionConnect(o)
    \/ \E o \in StepOutcomes : SessionConfigure(o)

TeardownNext ==
    \/ SaveTranscript
    \/ cleanup

\* the frames and events that decide how a call begins and ends
LifecycleFrames ==
    {f \in CarrierFrames : \/ f.event \in {"stop", "disconnect"}
                           \/ f = Frame("start", "CA1")
                           \/ f = Frame("media", "AQ==")}
LifecycleEvents ==
    {e \in AiEvents : e.type \in {"end", "error", "other"} \/ e.data = "AQ=="}

\* the whole handler, with the process being told to shut down
BridgeNext ==
    \/ SetupNext
    \/ \E f \in LifecycleFrames : carrier_to_realtime(f)
    \/ \E e \in LifecycleEvents, ok \in BOOLEAN : realtime_to_carrier(e, ok, TRUE)
    \/ TeardownNext
    \/ \E b \in BOOLEAN, f \in FlagFail : set_shutting_down(b, f)
    \/ ShutdownKeyExpires

\* the whole handler under every carrier frame
InboundNext ==
    \/ SetupNext
    \/ \E f \in CarrierFrames : carrier_to_realtime(f)
    \/ \E e \in {e \in AiEvents : e.type \in {"end", "error"}} :
          realtime_to_carrier(e, TRUE, TRUE)
    \/ TeardownNext

\* the whole handler under every event of the AI session
OutboundNext ==
    \/ SetupNext
    \/ \E f \in {f \in CarrierFrames : f.event \in {"start", "stop", "disconnect"}} :
          carrier_to_realtime(f)
    \/ \E e \in AiEvents, ok \in BOOLEAN, crm \in BOOLEAN : realtime_to_carrier(e, ok, crm)
    \/ TeardownNext

----------------------------------------------------------------------------
(* Claims about the call session bridge *)

\* C12: when either relay loop of a call has ended, the other loop is
\* cancelled and the bridge goes on to teardown without waiting for the other
\* side: the loop still running handles no further frame or event.
C12_EitherEndCancelsOther ==
    [][/\ (bpc = "streaming" /\ inPc = "done" /\ outPc = "running")
            => ~(eventsIn' > eventsIn /\ outPc' = "running")
       /\ (bpc = "streaming" /\ outPc = "done" /\ inPc = "running")
            => ~(framesIn' > framesIn /\ inPc' = "running")]_vars

\* C13: every AI realtime connection that was opened is closed by the time
\* the bridge handler has returned, on every exit path.
C13_ConnectionClosedOnExit == bpc = "closed" => connection # "open"

\* C14 as claimed: the audio sent to the AI session is, one send per frame
\* and in arrival order, the audio of every media frame received before the
\* first stop event or disconnect.
C14_ForwardsEveryMediaFrame ==
    /\ Len(sent) = Len(expected)
    /\ \A i \in 1 .. Len(sent) : B64Decode(sent[i]) = B64Decode(expected[i])

\* C14: the audio sent to the AI session is, one send per frame and in
\* arrival order, the audio of every media frame with a non-empty payload
\* received before the first stop event, disconnect, or frame that fails to
\* parse or decode; the loop ends at that frame and not before.
C14_ForwardsValidMedia ==
    /\ Len(sent) = Len(cutShort)
    /\ \A i \in 1 .. Len(sent) :
         /\ B64Decode(sent[i]) # "error"
         /\ B64Decode(sent[i]) = B64Decode(cutShort[i])
    /\ inPc = "done" <=> stopSeen # "no"
    /\ inPc = "running" => bpc = "streaming"

\* three media frames, then stop: three payloads forwarded in their order
C14_Witness ==
    /\ inPc = "done"
    /\ stopSeen = "stop"
    /\ framesIn = 4
    /\ expected = <<"Ag==", "AQ== ", "AQ==">>
    /\ sent = <<"Ag==", "AQ==", "AQ==">>

\* C15: every function-call event received from the AI session is answered
\* with one function_call_output item for the same call id, carrying a
\* success field; an unknown tool name yields success false.
C15_EveryFunctionCallAnswered ==
    /\ \A id \in fcReceived :
         Cardinality({i \in 1 .. Len(fcOutputs) : fcOutputs[i].call_id = id}) = 1
    /\ \A i \in 1 .. Len(fcOutputs) :
         /\ fcOutputs[i].call_id \in fcReceived
         /\ fcOutputs[i].success \in BOOLEAN
         /\ fcOutputs[i].name \notin crm_tool_names => fcOutputs[i].success = FALSE

\* the assistant's words in a formatted transcript
RECURSIVE AssistantWords(_)
AssistantWords(lines) ==
    IF lines = <<>> THEN <<>>
    ELSE (IF Head(lines).label = "Assistant"
          THEN SelectSeq(Head(lines).content, LAMBDA d : d # " ")
          ELSE <<>>) \o AssistantWords(Tail(lines))

\* C16: the transcript handed to call-record persistence contains every
\* assistant transcript delta received during the call, the text not yet
\* flushed included.
C16_PersistedHasEveryDelta ==
    persisted.handed => AssistantWords(persisted.transcript) = deltasSeen

C18_DistinctCloseCodes ==
    (bpc = "closed" /\ failReason \in SetupFailures) =>
        /\ wsCloseCode # NoCode
        /\ \A r \in SetupFailures \ {failReason} : CloseCodeFor(r) # wsCloseCode

\* C19: a CallInfo for the call is in the registry while its bridge is
\* streaming, and none is left once the bridge has reached Closed.
C19_RegisteredWhileRunning ==
    /\ bpc = "streaming" => ScanKeys(registry) # {}
    /\ bpc \in {"idle", "closed"} => ScanKeys(registry) = {}

\* C20: once set_shutting_down(true) has been called, no newly arriving
\* carrier connection is admitted to a streaming bridge.
C20_NoAdmissionDuringShutdown == ~(lateArrival /\ bpc = "streaming")

\* C27: in every interleaving of the two relay loops, each media frame the
\* outbound loop sends to the carrier carries the stream id the carrier
\* announced in its start event; none is sent with an empty or stale id.
C27_MediaCarriesStreamId ==
    \A sid \in mediaOut : sid # "" /\ sid = streamSid

----------------------------------------------------------------------------
(* The registry with its store failing: the readers as steps of their own *)

ListFail == {"none", "scan", "hgetall"}

\* a caller awaits get_call_count()
CountCalls(f) ==
    /\ regLast' = RegOp("count", "", f, get_call_count(f), FALSE)
    /\ UNCHANGED <<regEnabled, registry, registered, regClean>>
    /\ UNCHANGED <<qvars, tvars, rvars, xvars>>

\* a caller awaits get_active_calls()
ListCalls(f) ==
    /\ regLast' = RegOp("list", "", f, get_active_calls(f), FALSE)
    /\ UNCHANGED <<regEnabled, registry, registered, regClean>>
    /\ UNCHANGED <<qvars, tvars, rvars, xvars>>

RegistryFaultNext ==
    \/ RegistryNext
    \/ \E f \in ScanFail : CountCalls(f)
    \/ \E f \in ListFail : ListCalls(f)
    \/ \E sd \in BOOLEAN, f \in FlagFail : set_shutting_down(sd, f)
    \/ ShutdownKeyExpires

\* C21: no registry operation raises when the store is unavailable or fails
\* part-way.  With the store failing, register and unregister return false,
\* get_call_count returns 0, get_active_calls returns the empty list and
\* set_shutting_down returns None; and register
\* returns false only when the registry is enabled and the store failed.
C21_NoRegistryOpRaises ==
    [][(/\ (regEnabled /\ regLast'.fail # "none") =>
             (CASE regLast'.op = "register" -> regLast'.ret = FALSE
                [] regLast'.op = "unregister" -> regLast'.ret = FALSE
                [] regLast'.op = "count" -> regLast'.ret = 0
                [] regLast'.op = "list" -> regLast'.ret = {}
                [] regLast'.op = "set_shutting_down" -> regLast'.ret = "None"
                [] OTHER -> TRUE)
        /\ (regLast'.op = "register" /\ regLast'.ret = FALSE) =>
              (regEnabled /\ regLast'.fail # "none")
        /\ (regLast'.op = "register" /\ regLast'.fail = "none") =>
              regLast'.ret = TRUE)]_vars

\* the count was read with the store failing while a call was registered
C21_Witness ==
    /\ regEnabled
    /\ regLast.op = "count"
    /\ regLast.fail = "scan"
    /\ regLast.ret = 0
    /\ ScanKeys(registry) # {}

----------------------------------------------------------------------------
(* The queue and the registry of one deployment, used for the same calls *)

\* the call ids waiting in the list
QueuedIds == {queue[i].call_id : i \in 1..Len(queue)}

AdmissionNext ==
    \/ \E c \in CallIds : enqueue_call(c, 0, "none")
    \/ dequeue_call("none")
    \/ \E c \in CallIds : remove_from_queue(c, "none")
    \/ \E c \in CallIds : register_call(c, "agent-1", "", "None", "none")
    \/ \E c \in CallIds : unregister_call(c, "none")

\* C22: in every reachable state no call id is both waiting in the
\* admission queue and registered in the registry as an active call.
C22_QueuedXorActive == QueuedIds \cap ScanKeys(registry) = {}

----------------------------------------------------------------------------
(* The queue across restarts of the deployment: settings.ENABLE_CALL_QUEUE
   is read at every call, the list and the counters live in Redis and
   outlast the process. *)

\* the process restarts with ENABLE_CALL_QUEUE set to enabled
Restart(enabled) ==
    /\ queueEnabled' = enabled
    /\ lastOp' = Op("restart", "", "none", FALSE)
    /\ UNCHANGED <<queue, stats, now, nextSerial, wasFull>>
    /\ UNCHANGED <<tvars, rvars, gvars, xvars>>

RestartNext ==
    \/ QueueNext
    \/ \E b \in BOOLEAN : Restart(b)

\* C23: while the queue feature is disabled every queue operation is a
\* no-op: enqueue and remove return false, dequeue returns empty, peek
\* returns an empty list, depth and clear return 0, and the stored list and
\* its counters stay exactly as they were.
C23_DisabledIsNoOp ==
    [][~queueEnabled =>
         /\ get_queue_depth = 0
         /\ \A count \in 1..(MaxQueueSize + 1) : peek_queue(count) = <<>>
         /\ lastOp'.op \in {"enqueue", "remove"} => lastOp'.ret = FALSE
         /\ lastOp'.op = "dequeue" => lastOp'.ret = NoCall
         /\ lastOp'.op = "clear" => lastOp'.ret = 0
         /\ lastOp'.op \in {"enqueue", "remove", "dequeue", "clear"} =>
              /\ queue' = queue
              /\ stats' = stats]_vars

\* a dequeue on the disabled queue returned empty with calls in the list
C23_Witness ==
    /\ ~queueEnabled
    /\ queue # <<>>
    /\ stats.total_queued > 0
    /\ lastOp.op = "dequeue"
    /\ lastOp.ret = NoCall

----------------------------------------------------------------------------
(* Concurrent consumers of the list *)

\* C26: under every interleaving of concurrent dequeue, remove and clear
\* calls, each enqueued call is consumed at most once: no call is returned
\* by two dequeues, and none is returned by a dequeue after a remove
\* returned true for it or after a clear counted it.
C26_ConsumedAtMostOnce == consumed.twice = {}

\* a clear has counted a call and holds the lock while a dequeue that
\* popped an earlier call has not yet returned
C26_Witness ==
    /\ \E t \in Tasks : tpc[t] = "clr_delete" /\ tloc[t].size >= 1
    /\ \E t \in Tasks : tpc[t] = "deq_hincrby"
    /\ Cardinality(consumed.once) >= 2

----------------------------------------------------------------------------
(* Store failures part-way through an operation *)

\* C29: if enqueue returns false, the list holds exactly the calls it held
\* before, in the same order, and the call passed in was not added, also
\* when the store fails after the insertion and before the counter update.
C29_FailedEnqueueLeavesQueue ==
    [][(lastOp'.op = "enqueue" /\ lastOp'.ret = FALSE) => queue' = queue]_vars

\* C30: wait_for_calls_to_drain returns true only if the registry holds no
\* call record at the poll that made it return; a store failure while
\* counting is not reported as a completed drain while records exist.
C30_TrueOnlyWhenEmpty ==
    [][(dpc = "poll" /\ dpc' = "idle" /\ drained'.ret = "True") =>
         ScanKeys(registry) = {}]_vars

----------------------------------------------------------------------------
(* The specifications *)

Init == QueueInit /\ ResilienceInit /\ RegistryInit /\ ShutdownInit /\ BridgeInit

Next == QueueNext

SpecInit == Init /\ regEnabled

\* the queue handlers, one at a time
Spec == SpecInit /\ [][Next]_vars

ConcInit == Init /\ queueEnabled /\ regEnabled

\* the queue handlers as concurrent tasks
ConcSpec == ConcInit /\ [][ConcNext]_vars

\* the resilience wrapper, called by concurrent callers
ResilienceSpec == ConcInit /\ [][ResilienceNext]_vars

RegistryInitial == Init /\ queueEnabled

\* the registry handlers, one at a time
RegistrySpec == RegistryInitial /\ [][RegistryNext]_vars

\* shutdown: the flag, the drain loop and the calls that end meanwhile
RegistryFaultSpec == RegistryInitial /\ [][RegistryFaultNext]_vars

AdmissionSpec == ConcInit /\ [][AdmissionNext]_vars

RestartSpec == SpecInit /\ [][RestartNext]_vars

DrainSpec == RegistryInitial /\ [][DrainNext]_vars

\* one carrier connection, from accept to the end of its handler, while the
\* process may be told to shut down
BridgeSpec == ConcInit /\ [][BridgeNext]_vars

\* one carrier connection and every frame the carrier may send
InboundSpec == ConcInit /\ [][InboundNext]_vars

\* one carrier connection and every event the AI session may send
OutboundSpec == ConcInit /\ [][OutboundNext]_vars

=============================================================================
